---------------------------- MODULE Spec2Model ----------------------------
(***************************************************************************)
(* Model of the falling-sand simulator of src/src/App.tsx: the lattice     *)
(* (gridState), the free particles, the timer tick, the brush stamp        *)
(* (Grid.activateCell) and the conversion (App.initGrid).                  *)
(*                                                                         *)
(* Numbers.  Lengths and velocities are counted in units of GRAVITY        *)
(* (0.05 canvas pixels), so GRAVITY is 1 and INITIAL_VELOCITY (0.1) is 2,  *)
(* and the arithmetic of the particle step is exact.  The lattice side     *)
(* GRID_SIZE (128 in the source) and the cell size PIXEL_SIZE (4 pixels    *)
(* in the source) are scaled down; CANVAS_SIZE is their product, as in the *)
(* source (512 = 128 * 4).  A colour is an opaque tag: 0 stands for the    *)
(* empty string of an Empty cell, a positive number for a colour string.   *)
(*                                                                         *)
(* React state.  setGrid(f) and setParticles(f) do not change the value a  *)
(* handler's closure reads (gridState, particles): they queue f, and the   *)
(* next render applies the queued updates in order.  gridPending and       *)
(* particlesPending hold the value the queue resolves to; Render commits   *)
(* them.  The updaters are pure, so applying each one on arrival to the    *)
(* pending value is the same as applying the queue in order at the render. *)
(***************************************************************************)
EXTENDS Integers, Sequences, FiniteSets, TLC

VARIABLES
    gridState,          \* the lattice of the last render (what closures read)
    particles,          \* the particle collection of the last render
    gridPending,        \* the lattice the queued setGrid updates resolve to
    particlesPending,   \* the collection the queued setParticles updates resolve to
    nStamps,            \* stamps issued so far (bounded by MaxStamps)
    op,                 \* history: the last handler that ran
    arg,                \* history: the inputs of the last stamp
    g0,                 \* history: the lattice the last handler's updater received
    p0                  \* history: the collection the last handler's updater received

vars == <<gridState, particles, gridPending, particlesPending, nStamps, op, arg, g0, p0>>

---------------------------------------------------------------------------
(* Sizes and constants *)

GRID_SIZE == 4

PIXEL_SIZE == 9

CANVAS_SIZE == GRID_SIZE * PIXEL_SIZE

GRAVITY == 1

INITIAL_VELOCITY == 2

\* canvas.width / GRID_SIZE: canvas pixels per lattice cell.
Scale == 2

\* Largest brush size of the slider that the model explores.
MaxBrush == 4

\* Colours the colour pickers offer.
NumColors == 2

\* Stamps issued in one behaviour of the application.
MaxStamps == 1

\* Occupied cells of a lattice drawn as an input.
MaxOccupied == 3

\* Particles of a collection drawn as an input.
MaxParticles == 2

NoColor == 0

Empty == 0

Falling == 1

Rising == 2

Cells == 0 .. (GRID_SIZE * GRID_SIZE - 1)

Rows == 0 .. (GRID_SIZE - 1)

Colors == 1 .. NumColors

EmptyCell == [state |-> Empty, color |-> NoColor]

\* Array(GRID_SIZE * GRID_SIZE).fill({ state: 0, color: "" })
EmptyGrid == [i \in Cells |-> EmptyCell]

Idx(row, col) == row * GRID_SIZE + col

RowOf(i) == i \div GRID_SIZE

ColOf(i) == i % GRID_SIZE

Occupied(g) == {i \in Cells : g[i].state # Empty}

---------------------------------------------------------------------------
(* The lattice step of the timer callback *)

\* A slip of the falling pass: it reads the lattice it is writing.
FallCellInPlace(prev, newGrid, row, col) ==
    LET currentIndex == Idx(row, col)
        aboveIndex == Idx(row - 1, col)
    IN  IF newGrid[aboveIndex].state = Falling /\ newGrid[currentIndex].state = Empty
        THEN [newGrid EXCEPT ![currentIndex] = newGrid[aboveIndex],
                             ![aboveIndex] = EmptyCell]
        ELSE newGrid

\* A slip of the falling pass: the source cell is not cleared.
FallCellNoClear(prev, newGrid, row, col) ==
    LET currentIndex == Idx(row, col)
        aboveIndex == Idx(row - 1, col)
    IN  IF prev[aboveIndex].state = Falling /\ prev[currentIndex].state = Empty
        THEN [newGrid EXCEPT ![currentIndex] = prev[aboveIndex]]
        ELSE newGrid

\* The body of the falling pass for one cell (reads prev, writes newGrid).
FallCell(prev, newGrid, row, col) ==
    LET currentIndex == Idx(row, col)
        aboveIndex == Idx(row - 1, col)
    IN  IF prev[aboveIndex].state = Falling /\ prev[currentIndex].state = Empty
        THEN [newGrid EXCEPT ![currentIndex] = prev[aboveIndex],
                             ![aboveIndex] = EmptyCell]
        ELSE newGrid

RECURSIVE FallCols(_, _, _, _)
\* for (let col = 0; col < GRID_SIZE; col++) of the falling pass
FallCols(prev, newGrid, row, col) ==
    IF col < GRID_SIZE
    THEN FallCols(prev, FallCell(prev, newGrid, row, col), row, col + 1)
    ELSE newGrid

RECURSIVE FallRows(_, _, _)
\* for (let row = GRID_SIZE - 1; row > 0; row--)
FallRows(prev, newGrid, row) ==
    IF row > 0
    THEN FallRows(prev, FallCols(prev, newGrid, row, 0), row - 1)
    ELSE newGrid

\* A slip of the rising pass: the source cell is not cleared.
RiseCellNoClear(prev, newGrid, row, col) ==
    LET currentIndex == Idx(row, col)
        belowIndex == Idx(row + 1, col)
    IN  IF prev[belowIndex].state = Rising /\ prev[currentIndex].state = Empty
        THEN [newGrid EXCEPT ![currentIndex] = prev[belowIndex]]
        ELSE newGrid

\* A slip of the rising pass: the destination is not required to be Empty.
RiseCellNoGuard(prev, newGrid, row, col) ==
    LET currentIndex == Idx(row, col)
        belowIndex == Idx(row + 1, col)
    IN  IF prev[belowIndex].state = Rising
        THEN [newGrid EXCEPT ![currentIndex] = prev[belowIndex],
                             ![belowIndex] = EmptyCell]
        ELSE newGrid

\* The body of the rising pass for one cell.
RiseCell(prev, newGrid, row, col) ==
    LET currentIndex == Idx(row, col)
        belowIndex == Idx(row + 1, col)
    IN  IF prev[belowIndex].state = Rising /\ prev[currentIndex].state = Empty
        THEN [newGrid EXCEPT ![currentIndex] = prev[belowIndex],
                             ![belowIndex] = EmptyCell]
        ELSE newGrid

RECURSIVE RiseCols(_, _, _, _)
\* for (let col = 0; col < GRID_SIZE; col++) of the rising pass
RiseCols(prev, newGrid, row, col) ==
    IF col < GRID_SIZE
    THEN RiseCols(prev, RiseCell(prev, newGrid, row, col), row, col + 1)
    ELSE newGrid

RECURSIVE RiseRows(_, _, _)
\* for (let row = 0; row < GRID_SIZE - 1; row++)
RiseRows(prev, newGrid, row) ==
    IF row < GRID_SIZE - 1
    THEN RiseRows(prev, RiseCols(prev, newGrid, row, 0), row + 1)
    ELSE newGrid

\* A slip of the falling pass: its scan starts one row above the bottom row.
LatticeStepShortScan(prev) ==
    RiseRows(prev, FallRows(prev, prev, GRID_SIZE - 2), 0)

\* The setGrid updater of the timer: newGrid = [...prev], the falling pass,
\* then the rising pass, both reading prev.
LatticeStep(prev) ==
    RiseRows(prev, FallRows(prev, prev, GRID_SIZE - 1), 0)

---------------------------------------------------------------------------
(* The particle step of the timer callback *)

\* A slip of the filter: the bound itself is still inside.
InsideInclusive(particle) == particle.y <= CANVAS_SIZE

\* .filter((particle) => particle.y < CANVAS_SIZE)
Inside(particle) == particle.y < CANVAS_SIZE

\* A slip of the map: a Rising particle is passed on as it is.
AdvanceRisingSkipped(particle) ==
    IF particle.isBlue
    THEN particle
    ELSE [particle EXCEPT !.y = particle.y + particle.vy,
                          !.vy = particle.vy + GRAVITY]

\* A slip of the map: the velocity is updated before the position uses it.
AdvanceVelocityFirst(particle) ==
    [particle EXCEPT !.y = particle.y + particle.vy + GRAVITY,
                     !.vy = particle.vy + GRAVITY]

\* .map((particle) => ({...particle, y: particle.y + particle.vy,
\*                      vy: particle.vy + GRAVITY}))
Advance(particle) ==
    [particle EXCEPT !.y = particle.y + particle.vy,
                     !.vy = particle.vy + GRAVITY]

\* The setParticles updater of the timer.
ParticleStep(prevParticles) ==
    SelectSeq([k \in 1 .. Len(prevParticles) |-> Advance(prevParticles[k])], Inside)

---------------------------------------------------------------------------
(* The timer callback *)

TimerTick ==
    /\ gridPending' = LatticeStep(gridPending)
    /\ particlesPending' = ParticleStep(particlesPending)
    /\ op' = "tick"
    /\ g0' = gridPending
    /\ p0' = particlesPending
    /\ UNCHANGED <<gridState, particles, nStamps, arg>>

\* React renders: the queued updates become the state the closures read.
Render ==
    /\ gridState # gridPending \/ particles # particlesPending
    /\ gridState' = gridPending
    /\ particles' = particlesPending
    /\ op' = "render"
    /\ g0' = gridPending
    /\ p0' = particlesPending
    /\ UNCHANGED <<gridPending, particlesPending, nStamps, arg>>

---------------------------------------------------------------------------
(* The brush stamp: Grid.activateCell *)

\* distanceFromCenter <= radius, with radius = brushSize / 2 and
\* distanceFromCenter = sqrt((i - radius + 0.5)^2 + (j - radius + 0.5)^2).
\* Both sides are doubled and squared: the squares are multiples of a
\* quarter far below 2^53, so the comparison of the source is exact.
WithinRadius(i, j, brushSize) ==
    (2 * i - brushSize + 1) * (2 * i - brushSize + 1)
      + (2 * j - brushSize + 1) * (2 * j - brushSize + 1)
        <= brushSize * brushSize

\* The cell a stamp writes: { state: isBlueMode ? 2 : 1, color: ... }
StampedCell(b) ==
    [state |-> IF b.isBlueMode THEN Rising ELSE Falling,
     color |-> IF b.isBlueMode THEN b.risingColor ELSE b.fallingColor]

\* A slip of the stamp: the column is not checked against the lattice.
StampCellNoColumnCheck(newGrid, b, i, j) ==
    LET row == b.centerRow - (b.brushSize \div 2) + i
        col == b.centerCol - (b.brushSize \div 2) + j
    IN  IF /\ WithinRadius(i, j, b.brushSize)
           /\ row >= 0
           /\ row < GRID_SIZE
           /\ Idx(row, col) \in Cells
        THEN [newGrid EXCEPT ![Idx(row, col)] = StampedCell(b)]
        ELSE newGrid

\* The body of the two loops of the stamp, for the offset (i, j).
StampCell(newGrid, b, i, j) ==
    LET row == b.centerRow - (b.brushSize \div 2) + i
        col == b.centerCol - (b.brushSize \div 2) + j
    IN  IF /\ WithinRadius(i, j, b.brushSize)
           /\ row >= 0
           /\ row < GRID_SIZE
           /\ col >= 0
           /\ col < GRID_SIZE
        THEN [newGrid EXCEPT ![Idx(row, col)] = StampedCell(b)]
        ELSE newGrid

RECURSIVE StampCols(_, _, _, _)
\* for (let j = 0; j < brushSize; j++)
StampCols(newGrid, b, i, j) ==
    IF j < b.brushSize
    THEN StampCols(StampCell(newGrid, b, i, j), b, i, j + 1)
    ELSE newGrid

RECURSIVE StampRows(_, _, _)
\* for (let i = 0; i < brushSize; i++)
StampRows(newGrid, b, i) ==
    IF i < b.brushSize
    THEN StampRows(StampCols(newGrid, b, i, 0), b, i + 1)
    ELSE newGrid

\* The inputs of a stamp: the pointer at canvas pixel (x, y) and the props
\* of Grid.  Math.floor(y / scale) is the floor division of Integers.
Brush(x, y, brushSize, isBlueMode, fallingColor, risingColor) ==
    [centerRow |-> y \div Scale,
     centerCol |-> x \div Scale,
     brushSize |-> brushSize,
     isBlueMode |-> isBlueMode,
     fallingColor |-> fallingColor,
     risingColor |-> risingColor]

activateCell(x, y, brushSize, isBlueMode, fallingColor, risingColor) ==
    LET b == Brush(x, y, brushSize, isBlueMode, fallingColor, risingColor)
    IN  /\ nStamps < MaxStamps
        /\ gridPending' = StampRows(gridPending, b, 0)
        /\ nStamps' = nStamps + 1
        /\ op' = "stamp"
        /\ arg' = b
        /\ g0' = gridPending
        /\ p0' = particlesPending
        /\ UNCHANGED <<gridState, particles, particlesPending>>

\* Pointer positions over the canvas.
PointerInside == 0 .. (Scale * GRID_SIZE - 1)

\* Pointer positions up to one cell beyond the canvas on either side.
PointerAnywhere == (0 - Scale) .. (Scale * GRID_SIZE + Scale - 1)

\* handleMouseMove with the button down, the pointer over the canvas.
Stamp ==
    \E x \in PointerInside, y \in PointerInside, brushSize \in 1 .. MaxBrush,
       isBlueMode \in BOOLEAN, fallingColor \in Colors, risingColor \in Colors :
        activateCell(x, y, brushSize, isBlueMode, fallingColor, risingColor)

\* activateCell with a centre that may lie outside the lattice.
StampAnywhere ==
    \E x \in PointerAnywhere, y \in PointerAnywhere, brushSize \in 1 .. MaxBrush,
       isBlueMode \in BOOLEAN, fallingColor \in Colors, risingColor \in Colors :
        activateCell(x, y, brushSize, isBlueMode, fallingColor, risingColor)

---------------------------------------------------------------------------
(* The conversion: App.initGrid *)

\* A slip of the conversion: every particle starts downwards.
ParticleOfAlwaysDown(g, i) ==
    [x |-> (i % GRID_SIZE) * PIXEL_SIZE,
     y |-> (i \div GRID_SIZE) * PIXEL_SIZE,
     vy |-> INITIAL_VELOCITY,
     isBlue |-> g[i].state = Rising,
     color |-> g[i].color]

\* The particle initGrid pushes for the occupied cell i of the lattice g.
ParticleOf(g, i) ==
    [x |-> (i % GRID_SIZE) * PIXEL_SIZE,
     y |-> (i \div GRID_SIZE) * PIXEL_SIZE,
     vy |-> IF g[i].state = Rising THEN 0 - INITIAL_VELOCITY ELSE INITIAL_VELOCITY,
     isBlue |-> g[i].state = Rising,
     color |-> g[i].color]

RECURSIVE Collect(_, _, _)
\* for (let i = 0; i < gridState.length; i++) if (state !== 0) push
Collect(g, i, newParticles) ==
    IF i < GRID_SIZE * GRID_SIZE
    THEN Collect(g, i + 1,
                 IF g[i].state # Empty
                 THEN Append(newParticles, ParticleOf(g, i))
                 ELSE newParticles)
    ELSE newParticles

\* The click on "Clear Board": the particles are made from gridState, the
\* lattice of the last render; both setters are given values, not updaters.
initGrid ==
    /\ particlesPending' = Collect(gridState, 0, <<>>)
    /\ gridPending' = EmptyGrid
    /\ op' = "convert"
    /\ g0' = gridPending
    /\ p0' = particlesPending
    /\ UNCHANGED <<gridState, particles, nStamps, arg>>

---------------------------------------------------------------------------
(* Lattices drawn as inputs *)

RECURSIVE SubsetsUpTo(_, _)
\* The subsets of S with at most k elements.
SubsetsUpTo(S, k) ==
    IF k = 0 \/ S = {}
    THEN {{}}
    ELSE LET x == CHOOSE y \in S : \A z \in S : y <= z
             rest == S \ {x}
         IN  SubsetsUpTo(rest, k) \cup {T \cup {x} : T \in SubsetsUpTo(rest, k - 1)}

\* A lattice with the given material in the cells of its domain; every
\* occupied cell has a colour of its own, so that a cell can be followed.
Painted(m) ==
    [i \in Cells |->
        IF i \in DOMAIN m
        THEN [state |-> m[i], color |-> NumColors + 1 + i]
        ELSE EmptyCell]

\* g is one of the lattices with at most k occupied cells.
InputLattice(g, k) ==
    \E S \in SubsetsUpTo(Cells, k) :
        \E m \in [S -> {Falling, Rising}] : g = Painted(m)

NoArg == [centerRow |-> 0, centerCol |-> 0, brushSize |-> 0,
          isBlueMode |-> FALSE, fallingColor |-> NoColor, risingColor |-> NoColor]

\* The timer tick applied, tick after tick, to every input lattice.
InitTick ==
    /\ InputLattice(gridState, MaxOccupied)
    /\ gridPending = gridState
    /\ particles = <<>>
    /\ particlesPending = <<>>
    /\ nStamps = 0
    /\ op = "init"
    /\ arg = NoArg
    /\ g0 = gridState
    /\ p0 = <<>>

NextTick == TimerTick

SpecTick == InitTick /\ [][NextTick]_vars

\* The lattices of fewer occupied cells, for the claims about all the
\* ticks to come.
InitSettle ==
    /\ InputLattice(gridState, MaxOccupied - 1)
    /\ gridPending = gridState
    /\ particles = <<>>
    /\ particlesPending = <<>>
    /\ nStamps = 0
    /\ op = "init"
    /\ arg = NoArg
    /\ g0 = gridState
    /\ p0 = <<>>

\* The timer of setInterval fires again and again: a tick that would
\* change the state is eventually taken.
SpecTickFair == InitSettle /\ [][NextTick]_vars /\ WF_vars(TimerTick)

\* A lattice whose cells all hold material m, each with a colour of its own
\* that no colour picker offers (Empty cells have no colour).
Uniform(m) ==
    [i \in Cells |->
        IF m = Empty THEN EmptyCell ELSE [state |-> m, color |-> NumColors + 1 + i]]

\* One stamp applied to an empty, an all-Falling and an all-Rising lattice.
InitStamp ==
    /\ gridState \in {Uniform(m) : m \in {Empty, Falling, Rising}}
    /\ gridPending = gridState
    /\ particles = <<>>
    /\ particlesPending = <<>>
    /\ nStamps = MaxStamps - 1
    /\ op = "init"
    /\ arg = NoArg
    /\ g0 = gridState
    /\ p0 = <<>>

NextStamp == StampAnywhere

SpecStamp == InitStamp /\ [][NextStamp]_vars

NextConvert == initGrid

\* The conversion applied to every input lattice.
SpecConvert == InitTick /\ [][NextConvert]_vars

\* ps is the collection a conversion makes of one of the lattices with at
\* most k occupied cells.
InputParticles(ps, k) ==
    \E S \in SubsetsUpTo(Cells, k) :
        \E m \in [S -> {Falling, Rising}] : ps = Collect(Painted(m), 0, <<>>)

\* The state after a conversion has rendered: an empty lattice and the
\* particles of the converted lattice.
InitParticles ==
    /\ gridState = EmptyGrid
    /\ gridPending = EmptyGrid
    /\ InputParticles(particles, MaxParticles)
    /\ particlesPending = particles
    /\ nStamps = 0
    /\ op = "init"
    /\ arg = NoArg
    /\ g0 = EmptyGrid
    /\ p0 = particles

NextParticles == TimerTick

\* The particle step applied, tick after tick, to every input collection.
SpecParticles == InitParticles /\ [][NextParticles]_vars

\* The same with the timer of setInterval firing again and again: a tick
\* that would change the state is eventually taken.
SpecParticlesFair == SpecParticles /\ WF_vars(TimerTick)

\* The application: useState's initial values.
Init ==
    /\ gridState = EmptyGrid
    /\ gridPending = EmptyGrid
    /\ particles = <<>>
    /\ particlesPending = <<>>
    /\ nStamps = 0
    /\ op = "init"
    /\ arg = NoArg
    /\ g0 = EmptyGrid
    /\ p0 = <<>>

Next == Stamp \/ TimerTick \/ initGrid \/ Render

Spec == Init /\ [][Next]_vars

---------------------------------------------------------------------------
(* Claims about one lattice step (checked under SpecTick) *)

Count(g) == Cardinality(Occupied(g))

OnlyFalling(g) == \A i \in Cells : g[i].state \in {Empty, Falling}

\* The lattice with every cell that is not of material m made Empty.
Keep(g, m) == [i \in Cells |-> IF g[i].state = m THEN g[i] ELSE EmptyCell]

\* Rows 0..N-2 of the column are Falling and its bottom row is Empty.
FullColumn(g, col) ==
    /\ \A r \in 0 .. (GRID_SIZE - 2) : g[Idx(r, col)].state = Falling
    /\ g[Idx(GRID_SIZE - 1, col)].state = Empty

\* C1: a tick (falling pass, then rising pass) leaves the number of occupied
\* lattice cells as it was before the tick.
C1_MassConserved ==
    op = "tick" => Count(gridPending) = Count(g0)

\* C2 (as claimed): a column that is Falling in rows 0..N-2 over an Empty
\* bottom row moves down as a whole in one tick: afterwards row 0 is Empty
\* and rows 1..N-1 are Falling.
C2_ColumnDrainsWhole ==
    op = "tick" =>
        \A col \in Rows :
            FullColumn(g0, col) =>
                /\ gridPending[Idx(0, col)].state = Empty
                /\ \A r \in 1 .. (GRID_SIZE - 1) :
                       gridPending[Idx(r, col)].state = Falling

\* C2 (amended): in such a column one tick moves the bottom occupant only:
\* the cell of row N-2 arrives in row N-1 with its colour, row N-2 is Empty,
\* and rows 0..N-3 keep their Falling cells.
C2_ColumnDrainsBottomOnly ==
    op = "tick" =>
        \A col \in Rows :
            FullColumn(g0, col) =>
                /\ gridPending[Idx(GRID_SIZE - 1, col)] = g0[Idx(GRID_SIZE - 2, col)]
                /\ gridPending[Idx(GRID_SIZE - 2, col)] = EmptyCell
                /\ \A r \in 0 .. (GRID_SIZE - 3) :
                       gridPending[Idx(r, col)] = g0[Idx(r, col)]

C2_Witness ==
    /\ op = "tick"
    /\ \E col \in Rows : FullColumn(g0, col) /\ ~FullColumn(gridPending, col)

\* What C3 expects of cell i after a tick of a lattice of Falling and Empty
\* cells: a Falling cell over an Empty cell has left, an Empty cell under a
\* Falling cell has received it, every other cell is as it was.
FallenCell(g, i) ==
    LET row == RowOf(i)
        col == ColOf(i)
    IN  IF /\ g[i].state = Falling
           /\ row < GRID_SIZE - 1
           /\ g[Idx(row + 1, col)].state = Empty
        THEN EmptyCell
        ELSE IF /\ g[i].state = Empty
                /\ row > 0
                /\ g[Idx(row - 1, col)].state = Falling
             THEN g[Idx(row - 1, col)]
             ELSE g[i]

\* C3: in a lattice of Falling and Empty cells, one tick moves every
\* Falling cell that had an Empty cell below it down by one row, with its
\* colour, and leaves every other cell where it was.
C3_FallingCellsStepDown ==
    (op = "tick" /\ OnlyFalling(g0)) =>
        \A i \in Cells : gridPending[i] = FallenCell(g0, i)

\* The scenario of the claim: a column Falling, Empty, Falling, Empty (top
\* to bottom) has become Empty, Falling, Empty, Falling.
C3_Witness ==
    /\ op = "tick"
    /\ OnlyFalling(g0)
    /\ \E col \in Rows :
          /\ g0[Idx(0, col)].state = Falling
          /\ g0[Idx(1, col)].state = Empty
          /\ g0[Idx(2, col)].state = Falling
          /\ g0[Idx(3, col)].state = Empty
          /\ gridPending[Idx(0, col)].state = Empty
          /\ gridPending[Idx(1, col)] = g0[Idx(0, col)]
          /\ gridPending[Idx(2, col)].state = Empty
          /\ gridPending[Idx(3, col)] = g0[Idx(2, col)]

\* The lattice reflected vertically, its Falling cells made Rising.
Mirror(g) ==
    [i \in Cells |->
        LET c == g[Idx(GRID_SIZE - 1 - RowOf(i), ColOf(i))]
        IN  IF c.state = Falling THEN [c EXCEPT !.state = Rising] ELSE c]

\* C7: for a lattice L of Falling and Empty cells, a tick of the mirror of
\* L (rows reversed, Falling made Rising) is the mirror of the tick of L.
C7_Symmetry ==
    (op = "tick" /\ OnlyFalling(g0)) =>
        LatticeStep(Mirror(g0)) = Mirror(gridPending)

C7_Witness ==
    /\ op = "tick"
    /\ OnlyFalling(g0)
    /\ Count(g0) >= 2
    /\ gridPending # g0
    /\ \E i \in Cells : g0[i].state = Falling /\ gridPending[i] = g0[i]

\* C9: the Falling cells after a tick are those of a tick of the lattice
\* without its Rising cells, and the Rising cells after a tick are those of
\* a tick of the lattice without its Falling cells.
C9_NoInteraction ==
    op = "tick" =>
        /\ Keep(gridPending, Falling) = Keep(LatticeStep(Keep(g0, Falling)), Falling)
        /\ Keep(gridPending, Rising) = Keep(LatticeStep(Keep(g0, Rising)), Rising)

---------------------------------------------------------------------------
(* Claims about the conversion (SpecConvert), the stamp (SpecStamp), the   *)
(* particle step (SpecParticles) and the application (Spec)                *)

\* The number of occupied cells of g up to and including cell i.
Rank(g, i) == Cardinality({j \in Occupied(g) : j <= i})

\* C4: a conversion of a lattice with k occupied cells makes k particles,
\* one per occupied cell in row-major order, at (col * PIXEL_SIZE,
\* row * PIXEL_SIZE), with the cell's colour and direction and the velocity
\* +INITIAL_VELOCITY (Falling) or -INITIAL_VELOCITY (Rising); the lattice
\* it leaves has no occupied cell.
C4_ConversionComplete ==
    op = "convert" =>
        /\ Len(particlesPending) = Count(gridState)
        /\ \A i \in Occupied(gridState) :
               LET particle == particlesPending[Rank(gridState, i)]
               IN  /\ particle.x = ColOf(i) * PIXEL_SIZE
                   /\ particle.y = RowOf(i) * PIXEL_SIZE
                   /\ particle.color = gridState[i].color
                   /\ particle.isBlue = (gridState[i].state = Rising)
                   /\ gridState[i].state = Falling => particle.vy = INITIAL_VELOCITY
                   /\ gridState[i].state = Rising => particle.vy = 0 - INITIAL_VELOCITY
        /\ Count(gridPending) = 0

C4_Witness ==
    /\ op = "convert"
    /\ Len(particlesPending) = MaxOccupied
    /\ \E k \in 1 .. Len(particlesPending) : particlesPending[k].isBlue
    /\ \E k \in 1 .. Len(particlesPending) : ~particlesPending[k].isBlue
    /\ Count(gridPending) = 0

\* The stamp b covers the cell (row, col): some offset (i, j) of the
\* brushSize x brushSize box lands on it and lies within brushSize / 2 of
\* the centre of the box.
Covered(b, row, col) ==
    \E i \in 0 .. (b.brushSize - 1), j \in 0 .. (b.brushSize - 1) :
        /\ row = b.centerRow - (b.brushSize \div 2) + i
        /\ col = b.centerCol - (b.brushSize \div 2) + j
        /\ (2 * i - b.brushSize + 1) * (2 * i - b.brushSize + 1)
             + (2 * j - b.brushSize + 1) * (2 * j - b.brushSize + 1)
               <= b.brushSize * b.brushSize

\* C5: a stamp sets to the requested material and colour exactly the cells
\* of the lattice that its disc covers, wherever its centre lies; every
\* other cell is unchanged (none is written by wrap-around), and the
\* result is again a whole lattice.
C5_BrushContainment ==
    op = "stamp" =>
        /\ DOMAIN gridPending = Cells
        /\ \A row \in Rows, col \in Rows :
               gridPending[Idx(row, col)] =
                   IF Covered(arg, row, col)
                   THEN [state |-> IF arg.isBlueMode THEN Rising ELSE Falling,
                         color |-> IF arg.isBlueMode THEN arg.risingColor
                                                     ELSE arg.fallingColor]
                   ELSE g0[Idx(row, col)]

\* A stamp of brush size 4 centred outside the lattice, left of column 0,
\* over an all-Rising lattice: part of the disc is clipped, the corners of
\* the box are outside the disc, and the cells written are overwritten.
C5_Witness ==
    /\ op = "stamp"
    /\ arg.brushSize = 4
    /\ arg.centerCol = 0 - 1
    /\ arg.centerRow = 1
    /\ ~arg.isBlueMode
    /\ g0[0].state = Rising
    /\ gridPending[Idx(0, 0)].state = Falling
    /\ gridPending[Idx(1, 0)].state = Falling
    /\ gridPending[Idx(2, 0)].state = Rising
    /\ gridPending[Idx(0, GRID_SIZE - 1)].state = Rising

\* The position of a particle after the position update of a tick.
UpdatedY(particle) == particle.y + particle.vy

\* C6 (as claimed): after the position update of a tick a particle stays
\* in the live collection when its position.y is at most the bound, and is
\* removed only when it exceeds the bound.
C6_RetainedAtBound ==
    op = "tick" =>
        Len(particlesPending) =
            Cardinality({k \in 1 .. Len(p0) : UpdatedY(p0[k]) <= CANVAS_SIZE})

\* C6 (amended): a particle stays in the live collection exactly when its
\* updated position.y is strictly below the bound; a particle whose
\* updated position.y equals the bound is removed.
C6_RemovedAtBound ==
    op = "tick" =>
        LET kept == {k \in 1 .. Len(p0) : UpdatedY(p0[k]) < CANVAS_SIZE}
        IN  /\ Len(particlesPending) = Cardinality(kept)
            /\ \A k \in kept :
                   LET particle == particlesPending[Cardinality({j \in kept : j <= k})]
                   IN  /\ particle.y = UpdatedY(p0[k])
                       /\ particle.x = p0[k].x
                       /\ particle.color = p0[k].color

C6_Witness ==
    /\ op = "tick"
    /\ \E k \in 1 .. Len(p0) : UpdatedY(p0[k]) = CANVAS_SIZE
    /\ \E k \in 1 .. Len(p0) : UpdatedY(p0[k]) < CANVAS_SIZE
    /\ Len(particlesPending) = Len(p0) - 1

\* C8: the particles a conversion makes are those of the occupied cells of
\* the lattice it clears, the lattice that the ticks and stamps issued
\* before it have produced.
C8_ConversionAtomic ==
    op = "convert" =>
        /\ Len(particlesPending) = Count(g0)
        /\ \A i \in Occupied(g0) :
               LET particle == particlesPending[Rank(g0, i)]
               IN  /\ particle.x = ColOf(i) * PIXEL_SIZE
                   /\ particle.y = RowOf(i) * PIXEL_SIZE
                   /\ particle.color = g0[i].color
                   /\ particle.isBlue = (g0[i].state = Rising)

\* C10: a particle leaves the live collection only in a tick in which its
\* updated position.y is not below the bound; a conversion keeps every
\* particle that was live before it; no stamp or render changes the
\* collection.
C10_OnlyBoundaryRemoves ==
    /\ op = "tick" =>
           Len(p0) - Len(particlesPending)
               <= Cardinality({k \in 1 .. Len(p0) : UpdatedY(p0[k]) >= CANVAS_SIZE})
    /\ op = "convert" =>
           \A k \in 1 .. Len(p0) :
               \E m \in 1 .. Len(particlesPending) : particlesPending[m] = p0[k]
    /\ op \in {"stamp", "render"} => particlesPending = p0

---------------------------------------------------------------------------
(* Claims about the integration of the particles (SpecParticles) *)

\* C11 (as claimed): in a tick the velocity is increased by GRAVITY first
\* and the position is advanced by the updated velocity: every live
\* particle has vy' = vy + GRAVITY and y' = y + vy + GRAVITY, with x as it
\* was.
C11_VelocityThenPosition ==
    op = "tick" =>
        \A m \in 1 .. Len(particlesPending) :
            \E k \in 1 .. Len(p0) :
                /\ particlesPending[m].vy = p0[k].vy + GRAVITY
                /\ particlesPending[m].y = p0[k].y + p0[k].vy + GRAVITY
                /\ particlesPending[m].x = p0[k].x
                /\ particlesPending[m].color = p0[k].color
                /\ particlesPending[m].isBlue = p0[k].isBlue

\* C11 (amended): in a tick the position is advanced by the velocity the
\* particle had before the tick and the velocity is increased by GRAVITY:
\* every particle that stays live has y' = y + vy and vy' = vy + GRAVITY,
\* with x, colour and direction as they were, in the order they had.
C11_PositionByOldVelocity ==
    op = "tick" =>
        LET kept == {k \in 1 .. Len(p0) : p0[k].y + p0[k].vy < CANVAS_SIZE}
        IN  /\ Len(particlesPending) = Cardinality(kept)
            /\ \A k \in kept :
                   particlesPending[Cardinality({j \in kept : j <= k})] =
                       [x |-> p0[k].x,
                        y |-> p0[k].y + p0[k].vy,
                        vy |-> p0[k].vy + GRAVITY,
                        isBlue |-> p0[k].isBlue,
                        color |-> p0[k].color]

\* A tick has advanced a Rising and a Falling particle, both still live.
C11_Witness ==
    /\ op = "tick"
    /\ Len(p0) = 2
    /\ Len(particlesPending) = 2
    /\ \E k \in 1 .. 2 : p0[k].isBlue /\ p0[k].vy < 0
    /\ \E k \in 1 .. 2 : ~p0[k].isBlue /\ p0[k].vy > 0
    /\ \A k \in 1 .. 2 : particlesPending[k].y = p0[k].y + p0[k].vy

\* C12: with ticks firing and no further conversion, every particle a
\* conversion has made, Falling or Rising, is removed after finitely many
\* ticks: the collection becomes empty and stays empty.
C12_ParticlesDrain == <>[](particlesPending = <<>>)

\* The tick that removed the last particle, a Rising one that had turned
\* back and crossed the bound.
C12_Witness ==
    /\ op = "tick"
    /\ particlesPending = <<>>
    /\ Len(p0) = 1
    /\ p0[1].isBlue
    /\ p0[1].y + p0[1].vy >= CANVAS_SIZE

---------------------------------------------------------------------------
(* Further claims about the lattice step (SpecTick, SpecTickFair) *)

\* The cells of g that hold material m.
Holding(g, m) == {i \in Cells : g[i].state = m}

\* C13: a tick leaves the number of Rising cells as it was and does not
\* increase the number of Falling cells, and every cell occupied after the
\* tick holds the material and colour of a cell of the same column before
\* the tick.
C13_MaterialCounts ==
    op = "tick" =>
        /\ Cardinality(Holding(gridPending, Rising)) = Cardinality(Holding(g0, Rising))
        /\ Cardinality(Holding(gridPending, Falling)) <= Cardinality(Holding(g0, Falling))
        /\ \A i \in Occupied(gridPending) :
               \E j \in Cells : ColOf(j) = ColOf(i) /\ g0[j] = gridPending[i]

\* A tick in which a Rising cell has moved and a Falling cell was lost.
C13_Witness ==
    /\ op = "tick"
    /\ Cardinality(Holding(gridPending, Falling)) < Cardinality(Holding(g0, Falling))
    /\ Holding(gridPending, Rising) # Holding(g0, Rising)
    /\ Cardinality(Holding(gridPending, Rising)) = Cardinality(Holding(g0, Rising))
\* No Falling cell of g has an Empty cell directly below it and no Rising
\* cell of g has an Empty cell directly above it.
Settled(g) ==
    \A row \in 0 .. (GRID_SIZE - 2), col \in Rows :
        /\ ~(g[Idx(row, col)].state = Falling /\ g[Idx(row + 1, col)].state = Empty)
        /\ ~(g[Idx(row + 1, col)].state = Rising /\ g[Idx(row, col)].state = Empty)

\* C14: with ticks firing and no stamp or conversion, the lattice reaches
\* after finitely many ticks a state that further ticks leave unchanged,
\* in which no Falling cell has an Empty cell directly below it and no
\* Rising cell has an Empty cell directly above it.
C14_Quiescence ==
    <>[](Settled(gridPending) /\ LatticeStep(gridPending) = gridPending)

\* A lattice that a tick has left unchanged, in which a Falling cell of
\* row 0 has reached the bottom row and a Rising cell of the bottom row has
\* reached row 0 (the colour of an input cell names the cell it started in).
C14_Witness ==
    /\ op = "tick"
    /\ g0 = gridPending
    /\ Settled(gridPending)
    /\ \E col \in Rows :
           gridPending[Idx(GRID_SIZE - 1, col)] =
               [state |-> Falling, color |-> NumColors + 1 + Idx(0, col)]
    /\ \E col \in Rows :
           gridPending[Idx(0, col)] =
               [state |-> Rising, color |-> NumColors + 1 + Idx(GRID_SIZE - 1, col)]

==========================================================================
